---- MODULE Spec2Model ----
(***************************************************************************)
(* Model of example/pipeline.py: the thread-identifier derivation          *)
(* get_thread_id (uuid5 over a fixed namespace, uuid4 when the session     *)
(* identifier is None), and the entrypoint coroutine that connects, waits  *)
(* for a participant, derives the identifier, builds the remote graph and  *)
(* the session, registers three observers and starts the session.          *)
(*                                                                         *)
(* Strings are sequences of one-character strings, bytes are 0..255, a     *)
(* 32-bit word is a pair <<high 16 bits, low 16 bits>>.                    *)
(***************************************************************************)
EXTENDS Integers, Sequences, FiniteSets, TLC

(***************************************************************************)
(* Bounds of the model.                                                    *)
(***************************************************************************)
\* Longest session identifier drawn over SidAlphabet.
MaxSidLen == 2
\* Most calls of get_thread_id in one run of the derivation specification.
MaxCalls == 3
\* Most events the session emits in one job, of all kinds together.
MaxEvents == 3
\* Most events the session emits in a job where it emits agent-state events
\* only.
MaxAgentEvents == 5
\* How many different byte strings os.urandom may return.
NumRandom == 3

(***************************************************************************)
(* Characters, bytes and hexadecimal digits.                               *)
(***************************************************************************)
HexDigits == <<"0","1","2","3","4","5","6","7","8","9","a","b","c","d","e","f">>

\* The value of a hexadecimal digit (int(c, 16) for a lower-case digit).
HexVal(c) == (CHOOSE i \in 1..16 : HexDigits[i] = c) - 1

\* '%02x' of one byte.
HexByte(b) == <<HexDigits[(b \div 16) + 1], HexDigits[(b % 16) + 1]>>

\* The ASCII code of the characters session identifiers are drawn from;
\* bytes(name, "utf-8") is one byte per character for these.
Ord(c) ==
  CASE c = "a" -> 97 [] c = "b" -> 98 [] c = "c" -> 99
    [] c = "1" -> 49 [] c = "2" -> 50 [] c = "3" -> 51
    [] c = "P" -> 80 [] c = "A" -> 65 [] c = "_" -> 95

Utf8(s) == [i \in 1..Len(s) |-> Ord(s[i])]

RECURSIVE Flatten(_)
Flatten(ss) == IF ss = <<>> THEN <<>> ELSE Head(ss) \o Flatten(Tail(ss))

(***************************************************************************)
(* 16-bit and 32-bit arithmetic.                                           *)
(***************************************************************************)
\* Bit i of a.
Bit(a, i) == (a \div (2 ^ i)) % 2

\* The bitwise operations on 4-bit values, bit by bit.
Xor4(a, b) ==
  ((Bit(a, 0) + Bit(b, 0)) % 2) + 2 * ((Bit(a, 1) + Bit(b, 1)) % 2)
    + 4 * ((Bit(a, 2) + Bit(b, 2)) % 2) + 8 * ((Bit(a, 3) + Bit(b, 3)) % 2)

And4(a, b) ==
  (Bit(a, 0) * Bit(b, 0)) + 2 * (Bit(a, 1) * Bit(b, 1))
    + 4 * (Bit(a, 2) * Bit(b, 2)) + 8 * (Bit(a, 3) * Bit(b, 3))

\* The 4-bit digit i of a.
Nib(a, i) == (a \div (16 ^ i)) % 16

\* The bitwise operations on 16-bit values, four bits at a time.
Xor(a, b) ==
  Xor4(Nib(a, 0), Nib(b, 0)) + 16 * Xor4(Nib(a, 1), Nib(b, 1))
    + 256 * Xor4(Nib(a, 2), Nib(b, 2)) + 4096 * Xor4(Nib(a, 3), Nib(b, 3))

And(a, b) ==
  And4(Nib(a, 0), Nib(b, 0)) + 16 * And4(Nib(a, 1), Nib(b, 1))
    + 256 * And4(Nib(a, 2), Nib(b, 2)) + 4096 * And4(Nib(a, 3), Nib(b, 3))

Or(a, b) == a + b - And(a, b)

Not16(a) == 65535 - a

\* Words are <<hi, lo>> with hi, lo in 0..65535.
WXor(x, y) == <<Xor(x[1], y[1]), Xor(x[2], y[2])>>
WAnd(x, y) == <<And(x[1], y[1]), And(x[2], y[2])>>
WOr(x, y)  == <<Or(x[1], y[1]), Or(x[2], y[2])>>
WNot(x)    == <<Not16(x[1]), Not16(x[2])>>

\* Addition modulo 2^32.
WAdd(x, y) ==
  LET lo == x[2] + y[2]
      hi == x[1] + y[1] + (lo \div 65536)
  IN  <<hi % 65536, lo % 65536>>

Pow2(n) == 2 ^ n

\* Rotate left by n, 0 < n < 16.
RotlSmall(x, n) ==
  << ((x[1] * Pow2(n)) % 65536) + (x[2] \div Pow2(16 - n)),
     ((x[2] * Pow2(n)) % 65536) + (x[1] \div Pow2(16 - n)) >>

\* Rotate left by n, 0 < n < 32, n # 16.
Rotl(x, n) == IF n < 16 THEN RotlSmall(x, n) ELSE RotlSmall(<<x[2], x[1]>>, n - 16)

WordOfBytes(b1, b2, b3, b4) == <<b1 * 256 + b2, b3 * 256 + b4>>
BytesOfWord(x) == <<x[1] \div 256, x[1] % 256, x[2] \div 256, x[2] % 256>>

(***************************************************************************)
(* SHA-1 (hashlib.sha1(...).digest()), FIPS 180-4.                         *)
(***************************************************************************)
Zeros(n) == [i \in 1..n |-> 0]

\* The message, 0x80, zeros up to 56 mod 64, and the bit length in 64 bits
\* (messages here are far shorter than 2^16 bytes: the top six length bytes
\* are zero).
Sha1Pad(msg) ==
  LET n    == Len(msg)
      k    == (119 - (n % 64)) % 64
      bits == n * 8
  IN  msg \o <<128>> \o Zeros(k) \o Zeros(6) \o <<bits \div 256, bits % 256>>

\* The next word of the message schedule, made of the sixteen before it.
NextW(w) ==
  LET t == Len(w) + 1
  IN  Rotl(WXor(WXor(w[t - 3], w[t - 8]), WXor(w[t - 14], w[t - 16])), 1)

\* The message schedule: w extended by n words, n > 0.  The extension is
\* split in halves; the first half is bound to a value (the one element of
\* a set) before the second begins, so that the evaluation nests no deeper
\* than the logarithm of n.
RECURSIVE ExtendW(_, _)
ExtendW(w, n) ==
  IF n = 1 THEN Append(w, NextW(w))
  ELSE CHOOSE r \in {ExtendW(half, n - (n \div 2)) : half \in {ExtendW(w, n \div 2)}} : TRUE

BlockWords(blk) ==
  ExtendW([i \in 1..16 |->
             WordOfBytes(blk[4*i - 3], blk[4*i - 2], blk[4*i - 1], blk[4*i])], 64)

\* Round function and constant of round t (0-based).
Sha1F(t, b, c, d) ==
  IF t < 20 THEN WOr(WAnd(b, c), WAnd(WNot(b), d))
  ELSE IF t < 40 THEN WXor(WXor(b, c), d)
  ELSE IF t < 60 THEN WOr(WOr(WAnd(b, c), WAnd(b, d)), WAnd(c, d))
  ELSE WXor(WXor(b, c), d)

Sha1K(t) ==
  IF t < 20 THEN <<23170, 31129>>        \* 0x5A827999
  ELSE IF t < 40 THEN <<28377, 60321>>   \* 0x6ED9EBA1
  ELSE IF t < 60 THEN <<36635, 48348>>   \* 0x8F1BBCDC
  ELSE <<51810, 49622>>                  \* 0xCA62C1D6

\* One round: the state <<a, b, c, d, e>> after round t (0-based).
Sha1Round(w, t, s) ==
  LET tmp == WAdd(WAdd(WAdd(WAdd(Rotl(s[1], 5), Sha1F(t, s[2], s[3], s[4])),
                            s[5]), Sha1K(t)), w[t + 1])
  IN  <<tmp, s[1], Rotl(s[2], 30), s[3], s[4]>>

\* Rounds t .. t + n - 1 applied to the state s, split in halves like
\* ExtendW.
RECURSIVE Sha1Rounds(_, _, _, _)
Sha1Rounds(w, s, t, n) ==
  IF n = 1 THEN Sha1Round(w, t, s)
  ELSE CHOOSE r \in {Sha1Rounds(w, mid, t + (n \div 2), n - (n \div 2)) :
                      mid \in {Sha1Rounds(w, s, t, n \div 2)}} : TRUE

\* One block: the eighty rounds, and the state added to the hash.
Sha1Block(h, blk) ==
  CHOOSE r \in {<<WAdd(h[1], s[1]), WAdd(h[2], s[2]), WAdd(h[3], s[3]),
                  WAdd(h[4], s[4]), WAdd(h[5], s[5])>> :
                   s \in {Sha1Rounds(w, h, 0, 80) : w \in {BlockWords(blk)}}} : TRUE

Sha1Init ==
  << <<26437, 8961>>,     \* 0x67452301
     <<61389, 43913>>,    \* 0xEFCDAB89
     <<39098, 56574>>,    \* 0x98BADCFE
     <<4146, 21622>>,     \* 0x10325476
     <<50130, 57840>> >>  \* 0xC3D2E1F0

RECURSIVE Sha1Blocks(_, _)
Sha1Blocks(h, padded) ==
  IF padded = <<>> THEN h
  ELSE CHOOSE r \in {Sha1Blocks(h1, SubSeq(padded, 65, Len(padded))) :
                      h1 \in {Sha1Block(h, SubSeq(padded, 1, 64))}} : TRUE

\* The 20-byte digest.
sha1(msg) ==
  CHOOSE r \in {BytesOfWord(h[1]) \o BytesOfWord(h[2]) \o BytesOfWord(h[3])
                  \o BytesOfWord(h[4]) \o BytesOfWord(h[5]) :
                   h \in {Sha1Blocks(Sha1Init, Sha1Pad(msg))}} : TRUE

(***************************************************************************)
(* uuid.UUID: a UUID is its 16 bytes.                                      *)
(***************************************************************************)
NotDash(c) == c # "-"
StripDashes(s) == SelectSeq(s, NotDash)

\* UUID(hex): the dashes removed, the 32 digits read as 16 bytes.
UUID(hex) ==
  LET h == StripDashes(hex)
  IN  [i \in 1..16 |-> 16 * HexVal(h[2*i - 1]) + HexVal(h[2*i])]

\* UUID(bytes=b, version=v): the variant bits set to RFC 4122 (byte 8 is
\* 10xxxxxx) and the version written to the high nibble of byte 6.
UUIDFromBytes(b, version) ==
  [i \in 1..16 |->
     IF i = 7 THEN (b[i] % 16) + 16 * version
     ELSE IF i = 9 THEN (b[i] % 64) + 128
     ELSE b[i]]

\* str(u): 32 lower-case hex digits grouped 8-4-4-4-12.
str(u) ==
  LET hex == [k \in 1..32 |-> HexByte(u[(k + 1) \div 2])[2 - (k % 2)]]
  IN  SubSeq(hex, 1, 8) \o <<"-">> \o SubSeq(hex, 9, 12) \o <<"-">>
        \o SubSeq(hex, 13, 16) \o <<"-">> \o SubSeq(hex, 17, 20) \o <<"-">>
        \o SubSeq(hex, 21, 32)

\* A mutant of uuid5: only the first character of the name is hashed.
uuid5_first_char(namespace, name) ==
  UUIDFromBytes(
    SubSeq(sha1(namespace \o Utf8(IF name = <<>> THEN name ELSE <<Head(name)>>)),
           1, 16), 5)

\* uuid5(namespace, name): SHA-1 of the namespace's bytes followed by the
\* name's UTF-8 bytes, its first 16 bytes as a version-5 UUID.
uuid5(namespace, name) ==
  UUIDFromBytes(SubSeq(sha1(namespace \o Utf8(name)), 1, 16), 5)

\* A mutant of uuid4: the bytes are not os.urandom's.
uuid4_fixed(random) == UUIDFromBytes(Zeros(16), 4)

\* uuid4(): 16 bytes of os.urandom as a version-4 UUID; random is what
\* os.urandom(16) returned.
uuid4(random) == UUIDFromBytes(random, 4)

\* The byte strings os.urandom(16) may return: NumRandom strings that differ
\* in every byte, and one that differs from the first only in the four bits
\* uuid4 overwrites with the version.
Urandom(k) == [i \in 1..16 |-> (37 * k + 11 * i) % 256]
UrandomPool ==
  {Urandom(k) : k \in 1..NumRandom} \cup {[Urandom(1) EXCEPT ![7] = (@ + 16) % 256]}

(***************************************************************************)
(* Session identifiers: str | None.                                        *)
(***************************************************************************)
None == [isNone |-> TRUE, val |-> <<>>]
Some(s) == [isNone |-> FALSE, val |-> s]

SidAlphabet == {"a", "b"}

RECURSIVE StringsUpTo(_)
StringsUpTo(n) ==
  IF n = 0 THEN {<<>>}
  ELSE LET shorter == StringsUpTo(n - 1)
       IN  shorter \cup {Append(s, c) : s \in shorter, c \in SidAlphabet}

\* Every string over SidAlphabet up to MaxSidLen characters (the empty
\* string among them), a session identifier shaped like the SDK's, and the
\* one the scenario of the specification names.
SidStrings ==
  StringsUpTo(MaxSidLen) \cup {<<"P","A","_","1">>, <<"a","b","c","1","2","3">>}

Sids == {None} \cup {Some(s) : s \in SidStrings}

(***************************************************************************)
(* get_thread_id                                                           *)
(***************************************************************************)
NAMESPACE ==
  UUID(<<"4","1","0","1","0","b","5","d","-","5","4","4","7","-",
         "4","d","f","5","-","b","a","f","2","-",
         "9","7","d","6","9","f","2","e","9","d","0","6">>)

\* str(uuid5(NAMESPACE, s)) tabulated over the session identifiers of the
\* model, so that the hash of each is computed once.
Uuid5Str == [s \in SidStrings |-> str(uuid5(NAMESPACE, s))]

\* A mutant of get_thread_id: "if sid:" for "if sid is not None:".
get_thread_id_truthy(sid, random) ==
  IF ~sid.isNone /\ sid.val # <<>>
    THEN [ret |-> Uuid5Str[sid.val], urandom |-> 0]
    ELSE [ret |-> str(uuid4(random)), urandom |-> 1]

\* A mutant of get_thread_id: the uuid4 on every path.
get_thread_id_always_uuid4(sid, random) ==
  [ret |-> str(uuid4(random)), urandom |-> 1]

\* get_thread_id(sid): the string returned, and how many times os.urandom
\* was called to make it; random is what os.urandom returns if called.
get_thread_id(sid, random) ==
  IF sid # None
    THEN [ret |-> Uuid5Str[sid.val], urandom |-> 0]
    ELSE [ret |-> str(uuid4(random)), urandom |-> 1]

(***************************************************************************)
(* State.                                                                  *)
(***************************************************************************)
VARIABLES
  history,          \* the calls of get_thread_id made directly: argument,
                    \* result, and the bytes os.urandom gave the call if any
  urandom_calls,    \* how many times os.urandom has been called
  pc,               \* where entrypoint stands
  connected,        \* ctx.connect has returned
  participant,      \* entrypoint's local: what wait_for_participant returned
  thread_id,        \* entrypoint's local thread_id
  usage_collector,  \* the UsageCollector's accumulated summary
  graph,            \* entrypoint's local: the RemoteGraph handle
  session,          \* entrypoint's local: the AgentSession
  stdout,           \* the lines printed
  log,              \* the records logged
  trace,            \* the steps of entrypoint entered, in order
  failed,           \* the step that raised, "none" before any has
  delivered         \* the events the session has emitted, in order

vars == <<history, urandom_calls, pc, connected, participant, thread_id,
          usage_collector, graph, session, stdout, log, trace, failed, delivered>>

deriveVars == <<history>>
entryVars == <<pc, connected, participant, thread_id, usage_collector, graph,
               session, stdout, log, trace, failed, delivered>>

Init ==
  /\ history = <<>>
  /\ urandom_calls = 0
  /\ pc = "connect"
  /\ connected = FALSE
  /\ participant = None
  /\ thread_id = None
  /\ usage_collector = None
  /\ graph = None
  /\ session = None
  /\ stdout = <<>>
  /\ log = <<>>
  /\ trace = <<>>
  /\ failed = "none"
  /\ delivered = <<>>

(***************************************************************************)
(* The derivation called directly, any argument, any number of times.      *)
(***************************************************************************)
CallGetThreadId(sid) ==
  /\ Len(history) < MaxCalls
  /\ \E random \in UrandomPool :
       LET r == get_thread_id(sid, random)
       IN  /\ history' = Append(history,
                                 [sid |-> sid, ret |-> r.ret,
                                  random |-> IF r.urandom = 1 THEN random ELSE <<>>])
           /\ urandom_calls' = urandom_calls + r.urandom
  /\ UNCHANGED entryVars

CallPresent == \E s \in SidStrings : CallGetThreadId(Some(s))
CallAbsent == CallGetThreadId(None)

NextDerive == CallPresent \/ CallAbsent

SpecDerive == Init /\ [][NextDerive]_vars

(***************************************************************************)
(* entrypoint: the inputs the SDK hands it.                                *)
(***************************************************************************)
\* The participants wait_for_participant may return; the SDK gives each a
\* string sid.
Participants ==
  {[sid |-> s, identity |-> "user"] :
     s \in {<<"P","A","_","1">>, <<"a","b","c","1","2","3">>}}

\* The values new_state may take: the ones each observer names, and one it
\* does not.
UserStates == {"speaking", "listening", "away", "thinking"}
AgentStates == {"initializing", "idle", "listening", "thinking", "speaking", "away"}

\* The metrics the session reports: each has a type and a token count, which
\* only LLM metrics carry.
AgentMetrics == {[type |-> "llm", prompt_tokens |-> 2, completion_tokens |-> 1],
                 [type |-> "vad", prompt_tokens |-> 0, completion_tokens |-> 0]}

EventNames == {"metrics_collected", "user_state_changed", "agent_state_changed"}

\* The steps of entrypoint that call into the SDK and may raise.
Fallible == {"connect", "wait_for_participant", "RemoteGraph", "AgentSession", "start"}

(***************************************************************************)
(* entrypoint: its control flow.                                           *)
(***************************************************************************)
\* A mutant of After: the session is started right after it is built, and
\* the observers are registered afterwards.
After_start_first(step) ==
  CASE step = "connect"              -> "wait_for_participant"
    [] step = "wait_for_participant" -> "get_thread_id"
    [] step = "get_thread_id"        -> "UsageCollector"
    [] step = "UsageCollector"       -> "RemoteGraph"
    [] step = "RemoteGraph"          -> "AgentSession"
    [] step = "AgentSession"         -> "start"
    [] step = "on_metrics_collected" -> "on_user_state_changed"
    [] step = "on_user_state_changed" -> "on_agent_state_changed"
    [] step = "on_agent_state_changed" -> "start"

\* The statement that follows each statement of entrypoint's body, which has
\* no branch and no loop.
After(step) ==
  CASE step = "connect"              -> "wait_for_participant"
    [] step = "wait_for_participant" -> "get_thread_id"
    [] step = "get_thread_id"        -> "UsageCollector"
    [] step = "UsageCollector"       -> "RemoteGraph"
    [] step = "RemoteGraph"          -> "AgentSession"
    [] step = "AgentSession"         -> "on_metrics_collected"
    [] step = "on_metrics_collected" -> "on_user_state_changed"
    [] step = "on_user_state_changed" -> "on_agent_state_changed"
    [] step = "on_agent_state_changed" -> "start"

\* A mutant of OnRaise: the step that raised is tried again.
OnRaise_retry(step) == step

\* Where control goes when a step raises: entrypoint has no try statement,
\* so the exception leaves it.
OnRaise(step) == "aborted"

\* A mutant of LangGraphConfig: the adapter built without a config, as in the
\* commented-out line.
LangGraphConfig_none(tid) == [configurable |-> [thread_id |-> None]]

\* config={"configurable": {"thread_id": thread_id}}
LangGraphConfig(tid) == [configurable |-> [thread_id |-> tid]]

\* session.on(event, handler): the handler added to the event's handlers.
SessionOn(sess, event, handler) ==
  [sess EXCEPT !.handlers[event] = @ \cup {handler}]

(***************************************************************************)
(* entrypoint: its steps.                                                  *)
(***************************************************************************)
Enter(step) == pc = step /\ trace' = Append(trace, step)

\* logger.info(...); await ctx.connect(...)
Connect ==
  /\ Enter("connect")
  /\ log' = Append(log, "connecting to room")
  /\ connected' = TRUE
  /\ pc' = After("connect")
  /\ UNCHANGED <<history, urandom_calls, participant, thread_id, usage_collector,
                 graph, session, stdout, failed, delivered>>

\* participant = await ctx.wait_for_participant()
WaitForParticipant ==
  /\ Enter("wait_for_participant")
  /\ \E p \in Participants : participant' = Some(p)
  /\ pc' = After("wait_for_participant")
  /\ UNCHANGED <<history, urandom_calls, connected, thread_id, usage_collector,
                 graph, session, stdout, log, failed, delivered>>

\* thread_id = get_thread_id(participant.sid); logger.info(...)
DeriveThreadId ==
  /\ Enter("get_thread_id")
  /\ \E random \in UrandomPool :
       LET r == get_thread_id(Some(participant.val.sid), random)
       IN  /\ thread_id' = Some(r.ret)
           /\ urandom_calls' = urandom_calls + r.urandom
  /\ log' = Append(log, "starting voice assistant")
  /\ pc' = After("get_thread_id")
  /\ UNCHANGED <<history, connected, participant, usage_collector, graph, session,
                 stdout, failed, delivered>>

\* usage_collector = metrics.UsageCollector()
NewUsageCollector ==
  /\ Enter("UsageCollector")
  /\ usage_collector' = Some([llm_prompt_tokens |-> 0, llm_completion_tokens |-> 0])
  /\ pc' = After("UsageCollector")
  /\ UNCHANGED <<history, urandom_calls, connected, participant, thread_id, graph,
                 session, stdout, log, failed, delivered>>

\* graph = RemoteGraph("stepwork_assistant", url=remote_graph_url)
NewRemoteGraph ==
  /\ Enter("RemoteGraph")
  /\ graph' = Some([name |-> "stepwork_assistant", url |-> "REMOTE_GRAPH_URL"])
  /\ pc' = After("RemoteGraph")
  /\ UNCHANGED <<history, urandom_calls, connected, participant, thread_id,
                 usage_collector, session, stdout, log, failed, delivered>>

\* session = AgentSession(..., llm=LangGraphAdapter(graph, config=...))
NewAgentSession ==
  /\ Enter("AgentSession")
  /\ session' = Some([llm      |-> [graph |-> graph, config |-> LangGraphConfig(thread_id)],
                      handlers |-> [e \in EventNames |-> {}],
                      started  |-> FALSE])
  /\ pc' = After("AgentSession")
  /\ UNCHANGED <<history, urandom_calls, connected, participant, thread_id,
                 usage_collector, graph, stdout, log, failed, delivered>>

Register(step, event) ==
  /\ Enter(step)
  /\ session' = Some(SessionOn(session.val, event, step))
  /\ pc' = After(step)
  /\ UNCHANGED <<history, urandom_calls, connected, participant, thread_id,
                 usage_collector, graph, stdout, log, failed, delivered>>

\* session.on("metrics_collected", on_metrics_collected)
RegisterMetrics == Register("on_metrics_collected", "metrics_collected")
\* @session.on("user_state_changed")
RegisterUserState == Register("on_user_state_changed", "user_state_changed")
\* @session.on("agent_state_changed")
RegisterAgentState == Register("on_agent_state_changed", "agent_state_changed")

\* await session.start(...): the session runs from here on.
Start ==
  /\ Enter("start")
  /\ session' = Some([session.val EXCEPT !.started = TRUE])
  /\ pc' = "running"
  /\ UNCHANGED <<history, urandom_calls, connected, participant, thread_id,
                 usage_collector, graph, stdout, log, failed, delivered>>

\* session.start returns, and entrypoint with it; the session runs on.
StartReturns ==
  /\ pc = "running"
  /\ pc' = "done"
  /\ UNCHANGED <<history, urandom_calls, connected, participant, thread_id,
                 usage_collector, graph, session, stdout, log, trace, failed, delivered>>

\* A step raises: at the call, or for session.start while it is awaited.
Raise ==
  /\ \E step \in Fallible :
       /\ \/ pc = step /\ trace' = Append(trace, step)
          \/ step = "start" /\ pc = "running" /\ trace' = trace
       /\ failed' = step
       /\ pc' = OnRaise(step)
       /\ log' = IF step = "connect" /\ pc = step
                   THEN Append(log, "connecting to room") ELSE log
  /\ UNCHANGED <<history, urandom_calls, connected, participant, thread_id,
                 usage_collector, graph, session, stdout, delivered>>

(***************************************************************************)
(* The observers.  Each is the effect of one call of the handler.          *)
(***************************************************************************)
\* UsageCollector.collect: LLM metrics add their token counts to the
\* summary, other metrics leave it as it is.
Collect(summary, agent_metrics) ==
  IF agent_metrics.type = "llm"
    THEN [summary EXCEPT
            !.llm_prompt_tokens = @ + agent_metrics.prompt_tokens,
            !.llm_completion_tokens = @ + agent_metrics.completion_tokens]
    ELSE summary

\* metrics.log_metrics(agent_metrics); usage_collector.collect(agent_metrics)
on_metrics_collected(agent_metrics) ==
  /\ log' = Append(log, "metrics")
  /\ usage_collector' = Some(Collect(usage_collector.val, agent_metrics))
  /\ UNCHANGED stdout

\* A mutant of on_user_state_changed: the last branch an else.
on_user_state_changed_else(ev) ==
  /\ stdout' =
       IF ev.new_state = "speaking" THEN Append(stdout, "User started speaking")
       ELSE IF ev.new_state = "listening" THEN Append(stdout, "User stopped speaking")
       ELSE Append(stdout, "User is not present (e.g. disconnected)")
  /\ UNCHANGED <<log, usage_collector>>

on_user_state_changed(ev) ==
  /\ stdout' =
       IF ev.new_state = "speaking" THEN Append(stdout, "User started speaking")
       ELSE IF ev.new_state = "listening" THEN Append(stdout, "User stopped speaking")
       ELSE IF ev.new_state = "away"
         THEN Append(stdout, "User is not present (e.g. disconnected)")
       ELSE stdout
  /\ UNCHANGED <<log, usage_collector>>

\* A mutant of on_agent_state_changed: the branch of "thinking" left out.
on_agent_state_changed_no_thinking(ev) ==
  /\ stdout' =
       IF ev.new_state = "initializing" THEN Append(stdout, "Agent is starting up")
       ELSE IF ev.new_state = "idle"
         THEN Append(stdout, "Agent is ready but not processing")
       ELSE IF ev.new_state = "listening"
         THEN Append(stdout, "Agent is listening for user input")
       ELSE IF ev.new_state = "speaking" THEN Append(stdout, "Agent started speaking")
       ELSE stdout
  /\ UNCHANGED <<log, usage_collector>>

\* A mutant of on_agent_state_changed: a new collector for every turn, made
\* when the agent starts thinking.
on_agent_state_changed_new_collector(ev) ==
  /\ stdout' =
       IF ev.new_state = "initializing" THEN Append(stdout, "Agent is starting up")
       ELSE IF ev.new_state = "idle"
         THEN Append(stdout, "Agent is ready but not processing")
       ELSE IF ev.new_state = "listening"
         THEN Append(stdout, "Agent is listening for user input")
       ELSE IF ev.new_state = "thinking"
         THEN Append(stdout, "Agent is processing user input and generating a response")
       ELSE IF ev.new_state = "speaking" THEN Append(stdout, "Agent started speaking")
       ELSE stdout
  /\ usage_collector' =
       IF ev.new_state = "thinking"
         THEN Some([llm_prompt_tokens |-> 0, llm_completion_tokens |-> 0])
         ELSE usage_collector
  /\ UNCHANGED log

on_agent_state_changed(ev) ==
  /\ stdout' =
       IF ev.new_state = "initializing" THEN Append(stdout, "Agent is starting up")
       ELSE IF ev.new_state = "idle"
         THEN Append(stdout, "Agent is ready but not processing")
       ELSE IF ev.new_state = "listening"
         THEN Append(stdout, "Agent is listening for user input")
       ELSE IF ev.new_state = "thinking"
         THEN Append(stdout, "Agent is processing user input and generating a response")
       ELSE IF ev.new_state = "speaking" THEN Append(stdout, "Agent started speaking")
       ELSE stdout
  /\ UNCHANGED <<log, usage_collector>>

(***************************************************************************)
(* The session emits events while it runs: from the moment entrypoint      *)
(* awaits session.start, the first point after the registrations where it  *)
(* yields to the event loop.  An event goes to the handler registered for  *)
(* it.                                                                     *)
(***************************************************************************)
SessionRunning(limit) == pc \in {"running", "done"} /\ Len(delivered) < limit

Registered(event, handler) == handler \in session.val.handlers[event]

EmitFrame ==
  UNCHANGED <<history, urandom_calls, pc, connected, participant, thread_id, graph,
              session, trace, failed>>

EmitMetrics(limit) ==
  /\ SessionRunning(limit)
  /\ \E m \in AgentMetrics :
       /\ delivered' = Append(delivered, [name |-> "metrics_collected", arg |-> m.type])
       /\ IF Registered("metrics_collected", "on_metrics_collected")
            THEN on_metrics_collected(m)
            ELSE UNCHANGED <<stdout, log, usage_collector>>
  /\ EmitFrame

EmitUserState(limit) ==
  /\ SessionRunning(limit)
  /\ \E st \in UserStates :
       /\ delivered' = Append(delivered, [name |-> "user_state_changed", arg |-> st])
       /\ IF Registered("user_state_changed", "on_user_state_changed")
            THEN on_user_state_changed([new_state |-> st])
            ELSE UNCHANGED <<stdout, log, usage_collector>>
  /\ EmitFrame

EmitAgentState(limit) ==
  /\ SessionRunning(limit)
  /\ \E st \in AgentStates :
       /\ delivered' = Append(delivered, [name |-> "agent_state_changed", arg |-> st])
       /\ IF Registered("agent_state_changed", "on_agent_state_changed")
            THEN on_agent_state_changed([new_state |-> st])
            ELSE UNCHANGED <<stdout, log, usage_collector>>
  /\ EmitFrame

(***************************************************************************)
(* Specifications.                                                         *)
(***************************************************************************)
EntrySteps ==
  \/ Connect
  \/ WaitForParticipant
  \/ DeriveThreadId
  \/ NewUsageCollector
  \/ NewRemoteGraph
  \/ NewAgentSession
  \/ RegisterMetrics
  \/ RegisterUserState
  \/ RegisterAgentState
  \/ Start
  \/ StartReturns
  \/ Raise

\* One job: entrypoint, and the session emitting events of every kind.
EmitMetricsCollected == EmitMetrics(MaxEvents)
EmitUserStateChanged == EmitUserState(MaxEvents)
EmitAgentStateChanged == EmitAgentState(MaxEvents)

Next ==
  \/ EntrySteps
  \/ EmitMetricsCollected
  \/ EmitUserStateChanged
  \/ EmitAgentStateChanged

Spec == Init /\ [][Next]_vars

\* One job in which the session emits agent-state events only, and more of
\* them.
EmitAgentStateOnly == EmitAgentState(MaxAgentEvents)

NextAgent == EntrySteps \/ EmitAgentStateOnly

SpecAgent == Init /\ [][NextAgent]_vars

(***************************************************************************)
(* Properties.                                                             *)
(***************************************************************************)
Last(s) == s[Len(s)]
IsPrefix(s, t) == Len(s) <= Len(t) /\ SubSeq(t, 1, Len(s)) = s
Occurrences(s, x) == Cardinality({i \in DOMAIN s : s[i] = x})

\* What Python's uuid5 returns for the empty name and for "abc123" under
\* NAMESPACE, as printed by str.
ThreadIdOfEmpty ==
  <<"4","b","f","e","d","a","d","8","-","7","7","0","1","-","5","3","6","c","-","8","d","8","a","-","2","5","e","c","1","1","4","6","7","9","e","2">>
ThreadIdOfAbc123 ==
  <<"0","d","5","7","8","a","7","0","-","6","e","1","5","-","5","5","9","e","-","8","4","d","b","-","7","7","e","9","d","0","9","5","6","e","e","9">>

Abc123 == <<"a","b","c","1","2","3">>

\* C1: any two calls of get_thread_id with the same session identifier that
\* is not None return the same string, whatever calls were made before or
\* between them and whatever the random source holds.
C1_SameSidSameThreadId ==
  \A i, j \in DOMAIN history :
    (history[i].sid # None /\ history[i].sid = history[j].sid)
      => history[i].ret = history[j].ret

\* "abc123" derived, then None, then "abc123" again: both give the
\* identifier Python gives.
C1_Witness ==
  /\ Len(history) = 3
  /\ history[1].sid = Some(Abc123) /\ history[1].ret = ThreadIdOfAbc123
  /\ history[2].sid = None
  /\ history[3].sid = Some(Abc123) /\ history[3].ret = ThreadIdOfAbc123

KeptBits(random) ==
  [i \in 1..16 |->
     IF i = 7 THEN random[i] % 16 ELSE IF i = 9 THEN random[i] % 64 ELSE random[i]]

\* What Python's str(UUID(bytes=b, version=4)) is for b = Urandom(1).
ThreadIdOfUrandom1 ==
  <<"3","0","3","b","4","6","5","1","-","5","c","6","7","-","4","2","7","d","-","8","8","9","3","-","9","e","a","9","b","4","b","f","c","a","d","5">>

\* C3 as stated: any two calls of get_thread_id with None return different
\* strings.
C3_AbsentNeverRepeats ==
  \A i, j \in DOMAIN history :
    (i # j /\ history[i].sid = None /\ history[j].sid = None)
      => history[i].ret # history[j].ret

\* C3 as amended: a call of get_thread_id with None returns a string made of
\* the bytes os.urandom gave that call and of nothing else, and two such
\* calls return the same string exactly when those bytes agree in every bit
\* uuid4 keeps.
C3_AbsentDiffersWithRandomBytes ==
  \A i, j \in DOMAIN history :
    (history[i].sid = None /\ history[j].sid = None)
      => (history[i].ret = history[j].ret
            <=> KeptBits(history[i].random) = KeptBits(history[j].random))

\* Three calls with None: os.urandom gives different bytes to the first
\* two, which return different strings, and to the third the bytes it gave
\* the first, which returns the first's string.
C3_Witness ==
  /\ Len(history) = 3
  /\ \A i \in 1..3 : history[i].sid = None
  /\ history[1].random = Urandom(1) /\ history[1].ret = ThreadIdOfUrandom1
  /\ history[2].random = Urandom(2) /\ history[2].ret # history[1].ret
  /\ history[3].random = Urandom(1) /\ history[3].ret = history[1].ret

\* C10: get_thread_id branches on None, not on emptiness: every call with
\* the empty string returns the uuid5 of the empty name, and os.urandom has
\* been called exactly once per call with None, never for a string.
C10_EmptySidIsDerived ==
  /\ \A i \in DOMAIN history :
       history[i].sid = Some(<<>>) => history[i].ret = ThreadIdOfEmpty
  /\ urandom_calls = Cardinality({i \in DOMAIN history : history[i].sid = None})

\* The empty string derived twice around a call with None.
C10_Witness ==
  /\ Len(history) = 3
  /\ history[1].sid = Some(<<>>) /\ history[3].sid = Some(<<>>)
  /\ history[2].sid = None
  /\ history[1].ret = history[3].ret
  /\ urandom_calls = 1

\* The order the steps of entrypoint are to be taken in.
StepOrder ==
  <<"connect", "wait_for_participant", "get_thread_id", "RemoteGraph", "AgentSession",
    "on_metrics_collected", "on_user_state_changed", "on_agent_state_changed", "start">>

InStepOrder(step) == \E i \in DOMAIN StepOrder : StepOrder[i] = step

AllRegistered ==
  /\ Registered("metrics_collected", "on_metrics_collected")
  /\ Registered("user_state_changed", "on_user_state_changed")
  /\ Registered("agent_state_changed", "on_agent_state_changed")

\* C4: the steps entrypoint has entered are an initial part of connect, wait
\* for a participant, derive the identifier, build the graph, build the
\* session, register the three observers, start (so each is entered at most
\* once and in that order); the session is started, and events reach the
\* observers, only with all three registered; the session holds the graph
\* and the identifier; the identifier is derived only with a participant
\* there.
C4_StepsInOrder ==
  /\ IsPrefix(SelectSeq(trace, InStepOrder), StepOrder)
  /\ (session # None /\ session.val.started) => AllRegistered
  /\ delivered # <<>> => AllRegistered
  /\ thread_id # None => participant # None /\ connected
  /\ session # None =>
       /\ graph # None /\ session.val.llm.graph = graph
       /\ thread_id # None

\* entrypoint has returned after taking every step, and the session runs.
C4_Witness ==
  /\ pc = "done"
  /\ SelectSeq(trace, InStepOrder) = StepOrder
  /\ session.val.started /\ AllRegistered
  /\ delivered # <<>>

\* C5: once a step has raised, entrypoint is over: the step that raised is
\* the last one entered and was entered once, no step of entrypoint can be
\* taken any more, and unless it was session.start that raised the session
\* has not been started; entrypoint ends in one of two ways, every step taken
\* or a step having raised.
C5_FailureEndsEntrypoint ==
  /\ failed # "none" =>
       /\ pc = "aborted"
       /\ Last(trace) = failed /\ Occurrences(trace, failed) = 1
       /\ ~ENABLED EntrySteps
       /\ failed # "start" => (session = None \/ ~session.val.started)
  /\ pc = "aborted" => failed \in Fallible
  /\ pc = "done" => failed = "none" /\ SelectSeq(trace, InStepOrder) = StepOrder

\* The construction of the graph raised: the session was never built.
C5_Witness ==
  /\ failed = "RemoteGraph"
  /\ pc = "aborted"
  /\ trace = <<"connect", "wait_for_participant", "get_thread_id", "UsageCollector",
               "RemoteGraph">>
  /\ thread_id # None /\ graph = None /\ session = None

\* The line on_user_state_changed is to print for a state, none for a state
\* it does not name.
UserLines(st) ==
  CASE st = "speaking"  -> <<"User started speaking">>
    [] st = "listening" -> <<"User stopped speaking">>
    [] st = "away"      -> <<"User is not present (e.g. disconnected)">>
    [] OTHER            -> <<>>

IsEvent(name) == delivered' # delivered /\ Last(delivered').name = name

\* C6: every user-state event adds to the output exactly the one line of its
\* state if the state is speaking, listening or away, and nothing otherwise.
C6_OneLinePerUserState ==
  [][IsEvent("user_state_changed")
       => stdout' = stdout \o UserLines(Last(delivered').arg)]_vars

UserEvent(st) == [name |-> "user_state_changed", arg |-> st]

\* speaking, then a state the observer does not name, then away: two lines.
C6_Witness ==
  /\ delivered = <<UserEvent("speaking"), UserEvent("thinking"), UserEvent("away")>>
  /\ stdout = <<"User started speaking", "User is not present (e.g. disconnected)">>

\* The line on_agent_state_changed is to print for a state, none for a state
\* it does not name.
AgentLines(st) ==
  CASE st = "initializing" -> <<"Agent is starting up">>
    [] st = "idle"         -> <<"Agent is ready but not processing">>
    [] st = "listening"    -> <<"Agent is listening for user input">>
    [] st = "thinking"     ->
         <<"Agent is processing user input and generating a response">>
    [] st = "speaking"     -> <<"Agent started speaking">>
    [] OTHER               -> <<>>

AgentEvent(st) == [name |-> "agent_state_changed", arg |-> st]

\* C7: when only agent-state events are emitted, the output is the lines of
\* the events' states, one per event whose state the observer names, in the
\* order of the events.
C7_AgentLinesFollowEvents ==
  stdout = Flatten([i \in DOMAIN delivered |->
                      IF delivered[i].name = "agent_state_changed"
                        THEN AgentLines(delivered[i].arg) ELSE <<>>])

\* initializing, idle, listening, thinking, speaking: five lines.
C7_Witness ==
  /\ delivered = <<AgentEvent("initializing"), AgentEvent("idle"),
                   AgentEvent("listening"), AgentEvent("thinking"),
                   AgentEvent("speaking")>>
  /\ stdout = <<"Agent is starting up", "Agent is ready but not processing",
                "Agent is listening for user input",
                "Agent is processing user input and generating a response",
                "Agent started speaking">>

ConfiguredThreadId == session.val.llm.config.configurable.thread_id

\* C8: the identifier is derived at most once in a job; once derived it is
\* what get_thread_id returns for the participant's sid; the session's graph
\* configuration holds that value; and no step or event changes the local
\* identifier or the configured one afterwards.
C8_ThreadIdDerivedOnceAndKept ==
  /\ [](/\ Occurrences(trace, "get_thread_id") <= 1
        /\ thread_id # None =>
             /\ Occurrences(trace, "get_thread_id") = 1
             /\ participant # None
             /\ \E random \in UrandomPool :
                  thread_id.val = get_thread_id(Some(participant.val.sid), random).ret
        /\ session # None => ConfiguredThreadId = thread_id /\ thread_id # None)
  /\ [][/\ thread_id # None => thread_id' = thread_id
        /\ session # None => session' # None /\ ConfiguredThreadId' = ConfiguredThreadId
       ]_vars

\* The participant "abc123", every step taken and every event emitted: the
\* session is configured with the identifier of "abc123".
C8_Witness ==
  /\ pc = "done"
  /\ Len(delivered) = MaxEvents
  /\ participant.val.sid = Abc123
  /\ ConfiguredThreadId = Some(ThreadIdOfAbc123)

\* C9 as stated: an event handled by any of the three observers leaves the
\* identifier, the session and the usage collector's summary unchanged.
C9_ObserversChangeNothing ==
  [][delivered' # delivered
       => UNCHANGED <<thread_id, session, usage_collector>>]_vars

\* C9 as amended: an event handled by any of the three observers leaves the
\* identifier, the session, the graph and the participant unchanged, and a
\* user-state or agent-state event leaves the usage collector's summary
\* unchanged and nothing logged; a metrics event is logged and collected into
\* the summary.
C9_ObserversFrame ==
  [][delivered' # delivered =>
       /\ UNCHANGED <<thread_id, session, graph, participant, connected>>
       /\ ~IsEvent("metrics_collected") => UNCHANGED <<usage_collector, log>>
    ]_vars

\* Events of all three kinds handled, and the summary holding what the
\* metrics event brought.
C9_Witness ==
  /\ delivered = <<AgentEvent("thinking"),
                   [name |-> "metrics_collected", arg |-> "llm"],
                   UserEvent("speaking")>>
  /\ usage_collector.val.llm_prompt_tokens = 2
  /\ thread_id # None

====
